---------------------------- MODULE Spec2Model ----------------------------
(***************************************************************************)
(* A model of smartio: the CompressionFormat registry (src/smartio/        *)
(* _main.py, lines 42-191), SmartIo.write / SmartIo.read over a small      *)
(* POSIX file system (lines 289-362), and the checksum-manifest rules      *)
(* whose error types live in src/smartio/_errors.py.                       *)
(*                                                                         *)
(* Strings are sequences of one-character strings, so that str.lower,      *)
(* str.strip, str.endswith, pathlib's parsing and the suffix arithmetic    *)
(* are computed as the code computes them.                                 *)
(***************************************************************************)
EXTENDS Integers, Sequences, FiniteSets, TLC

VARIABLES
    arg,        \* registry: the path_or_buff / name argument under test
    cres,       \* registry: the outcome of the one call applied to arg
    dir,        \* file system: directory, path string -> inode number
    data,       \* file system: inode number -> sequence of stored blocks
    clock,      \* datetime.now(): ticks at every call
    wr,         \* writers: one SmartIo.write call each (position and locals)
    rd,         \* the reader: last SmartIo.read outcome
    hist,       \* the scenario: the destination, what it held initially, the
                \* compression keyword the calls pass
    manifest,   \* checksums: the entries of the manifest file on disk
    sres        \* checksums: the outcome of the last register / verify call

vars == <<arg, cres, dir, data, clock, wr, rd, hist, manifest, sres>>
codecVars == <<arg, cres>>
ioVars == <<dir, data, clock, wr, rd, hist>>
sumVars == <<manifest, sres>>

(***************************************************************************)
(* Bounds of the model.                                                    *)
(***************************************************************************)
MaxPieces == 3
MaxTextLen == 2
MaxClock == 2
MaxEntries == 2
NumWriters == 2
MaxFaults == 1

----------------------------------------------------------------------------
(***************************************************************************)
(* String helpers (Python str methods).                                    *)
(***************************************************************************)
Last(s) == s[Len(s)]
Front(s) == SubSeq(s, 1, Len(s) - 1)

\* str.endswith
EndsWith(s, suf) ==
    /\ Len(suf) <= Len(s)
    /\ SubSeq(s, Len(s) - Len(suf) + 1, Len(s)) = suf

\* str.startswith
StartsWith(s, pre) ==
    /\ Len(pre) <= Len(s)
    /\ SubSeq(s, 1, Len(pre)) = pre

\* s[: -n] for n >= 1
DropLast(s, n) == SubSeq(s, 1, Len(s) - n)

\* str.count of a one-character string
Count(s, ch) == Cardinality({i \in 1..Len(s) : s[i] = ch})

\* str.rfind of a one-character string, as a 1-based index; 0 when absent
RFind(s, ch) ==
    LET hits == {i \in 1..Len(s) : s[i] = ch}
    IN IF hits = {} THEN 0 ELSE CHOOSE i \in hits : \A j \in hits : j <= i

LowerMap ==
    [G |-> "g", Z |-> "z", I |-> "i", P |-> "p", B |-> "b", X |-> "x",
     L |-> "l", N |-> "n", O |-> "o", E |-> "e", S |-> "s", T |-> "t",
     D |-> "d"]

LowerChar(ch) == IF ch \in DOMAIN LowerMap THEN LowerMap[ch] ELSE ch

\* str.lower
Lower(s) == [i \in 1..Len(s) |-> LowerChar(s[i])]

WhiteSpace == {" ", "\t", "\n"}

\* str.strip
RECURSIVE LStrip(_)
LStrip(s) ==
    IF s # <<>> /\ Head(s) \in WhiteSpace THEN LStrip(Tail(s)) ELSE s

RECURSIVE RStrip(_)
RStrip(s) ==
    IF s # <<>> /\ Last(s) \in WhiteSpace THEN RStrip(Front(s)) ELSE s

Strip(s) == RStrip(LStrip(s))

\* "".join / sep.join over a sequence of strings
RECURSIVE JoinWith(_, _)
JoinWith(parts, sep) ==
    IF parts = <<>> THEN <<>>
    ELSE IF Len(parts) = 1 THEN parts[1]
    ELSE parts[1] \o sep \o JoinWith(Tail(parts), sep)

----------------------------------------------------------------------------
(***************************************************************************)
(* pathlib.PurePosixPath: a path is its root ("", "/" or "//") and its     *)
(* parts; parsing drops empty and "." components.                          *)
(***************************************************************************)
RECURSIVE SplitSlash(_)
SplitSlash(s) ==
    IF s = <<>> THEN << <<>> >>
    ELSE LET rest == SplitSlash(Tail(s))
         IN IF Head(s) = "/"
            THEN << <<>> >> \o rest
            ELSE << <<Head(s)>> \o Head(rest) >> \o Tail(rest)

KeepPart(c) == c # <<>> /\ c # <<".">>

PathRoot(s) ==
    IF Len(s) >= 1 /\ s[1] = "/"
    THEN IF Len(s) >= 2 /\ s[2] = "/" /\ ~(Len(s) >= 3 /\ s[3] = "/")
         THEN <<"/", "/">>
         ELSE <<"/">>
    ELSE <<>>

\* Path(s) for a str s
ParsePath(s) == [root |-> PathRoot(s), parts |-> SelectSeq(SplitSlash(s), KeepPart)]

\* str(path)
PathStr(p) ==
    IF p.root = <<>> /\ p.parts = <<>> THEN <<".">>
    ELSE p.root \o JoinWith(p.parts, <<"/">>)

\* path.name
PathName(p) == IF p.parts = <<>> THEN <<>> ELSE Last(p.parts)

\* path.parent
PathParent(p) ==
    IF p.parts = <<>> THEN p ELSE [root |-> p.root, parts |-> Front(p.parts)]

\* path / s, for a str s
PathJoin(p, s) ==
    LET q == ParsePath(s)
    IN IF q.root # <<>> THEN q
       ELSE [root |-> p.root, parts |-> p.parts \o q.parts]

\* path.suffix: the name from its last dot, unless that dot is the first or
\* the last character of the name
PathSuffix(p) ==
    LET name == PathName(p)
        i == RFind(name, ".")
    IN IF 1 < i /\ i < Len(name) THEN SubSeq(name, i, Len(name)) ELSE <<>>

\* path.suffixes: every dot-led piece of the name after its first piece; none
\* when the name ends with a dot
RECURSIVE SplitDot(_)
SplitDot(s) ==
    IF s = <<>> THEN << <<>> >>
    ELSE LET rest == SplitDot(Tail(s))
         IN IF Head(s) = "."
            THEN << <<>> >> \o rest
            ELSE << <<Head(s)>> \o Head(rest) >> \o Tail(rest)

RECURSIVE LStripDots(_)
LStripDots(s) ==
    IF s # <<>> /\ Head(s) = "." THEN LStripDots(Tail(s)) ELSE s

PathSuffixes(p) ==
    LET name == PathName(p)
    IN IF name # <<>> /\ Last(name) = "." THEN <<>>
       ELSE LET pieces == Tail(SplitDot(LStripDots(name)))
            IN [i \in 1..Len(pieces) |-> <<".">> \o pieces[i]]

----------------------------------------------------------------------------
(***************************************************************************)
(* CompressionFormat: the enum members in definition order.                *)
(***************************************************************************)
Members == <<"gz", "zip", "bz2", "xz", "zstd", "lz4", "none">>

\* the member's name as a string of characters
MemberName ==
    [gz |-> <<"g", "z">>, zip |-> <<"z", "i", "p">>, bz2 |-> <<"b", "z", "2">>,
     xz |-> <<"x", "z">>, zstd |-> <<"z", "s", "t", "d">>,
     lz4 |-> <<"l", "z", "4">>, none |-> <<"n", "o", "n", "e">>]

\* CompressionFormat.list
list == {Members[i] : i \in 1..Len(Members)}

\* CompressionFormat.list_non_empty
list_non_empty == {c \in list : c # "none"}

\* CompressionFormat.full_name
full_name(c) ==
    IF c = "gz" THEN <<"g", "z", "i", "p">>
    ELSE IF c = "bz2" THEN <<"b", "z", "i", "p", "2">>
    ELSE MemberName[c]

\* CompressionFormat.pandas_value, with "None" for Python's None
pandas_value(c) ==
    IF c = "none" THEN "None"
    ELSE IF c = "gz" THEN "gzip"
    ELSE IF c = "lz4" THEN ""
    ELSE c

\* CompressionFormat.suffix
suffix(c) ==
    IF c = "none" THEN <<>>
    ELSE IF c = "zstd" THEN <<".", "z", "s", "t">>
    ELSE <<".">> \o MemberName[c]

\* CompressionFormat.from_suffix: the first member, in definition order, whose
\* suffix equals the argument; none when the loop finds nothing
from_suffix(suf) ==
    LET hits == {i \in 1..Len(Members) : suf = suffix(Members[i])}
    IN IF hits = {} THEN "none"
       ELSE Members[CHOOSE i \in hits : \A j \in hits : i <= j]

\* from_path by the final extension always, also for a name such as ".gz"
from_path_SuffixOnly(s) == from_suffix(PathSuffix(ParsePath(s)))

\* CompressionFormat.from_path
from_path(s) ==
    LET path == ParsePath(s)
        name == PathName(path)
        suf == IF StartsWith(name, <<".">>) /\ Count(name, ".") = 1
               THEN name
               ELSE PathSuffix(path)
    IN from_suffix(suf)

\* CompressionFormat.strip_suffix: the loop runs over a set, whose order Python
\* does not fix, so every member whose suffix ends the name is a possible
\* first hit; this is the set of paths the call can return
strip_suffix(s) ==
    LET path == ParsePath(s)
        name == PathName(path)
        hits == {c \in list_non_empty : EndsWith(name, suffix(c))}
    IN IF hits = {} THEN {path}
       ELSE {PathJoin(PathParent(path), DropLast(name, Len(suffix(c)))) : c \in hits}

\* CompressionFormat.split: works on str(path), not on the name; the set of
\* (base, compression) pairs the call can return
split(str) ==
    LET hits == {c \in list_non_empty : EndsWith(str, suffix(c))}
    IN IF hits = {} THEN {[base |-> ParsePath(str), compression |-> "none"]}
       ELSE {[base |-> ParsePath(DropLast(str, Len(suffix(c)))),
              compression |-> c] : c \in hits}

\* CompressionFormat.of for a str: the member named strip().lower() of the
\* token, else the member whose full_name equals the token as given, else
\* the KeyError is re-raised
KeyError == "KeyError"
of(t) ==
    LET key == Lower(Strip(t))
        byName == {c \in list : MemberName[c] = key}
        byFull == {c \in list : t = full_name(c)}
    IN IF byName # {} THEN byName
       ELSE IF byFull # {} THEN byFull
       ELSE {KeyError}

----------------------------------------------------------------------------
(***************************************************************************)
(* The registry under test: one argument, one call.                        *)
(***************************************************************************)
DataCsvGz == <<"d", "a", "t", "a", ".", "c", "s", "v", ".", "g", "z">>
DataCsv == <<"d", "a", "t", "a", ".", "c", "s", "v">>

PathPieces ==
    { <<"/">>, <<".">>, <<"a">>, <<"g", "z">>, <<".", "g", "z">>,
      <<".", "z", "s", "t">> }

TokenPieces ==
    { <<" ">>, <<"-">>, <<"g", "z">>, <<"G", "Z">>, <<"i", "p">>, <<"I", "P">>,
      <<"b", "z">>, <<"2">>, <<"n", "o", "n", "e">>, <<"z", "s", "t", "d">> }

\* every string made of at most n pieces
RECURSIVE Concats(_, _)
Concats(pieces, n) ==
    IF n = 0 THEN { <<>> }
    ELSE LET prev == Concats(pieces, n - 1)
         IN prev \cup {p \o q : p \in prev, q \in pieces}

StrInputs ==
    Concats(PathPieces, MaxPieces) \cup Concats(TokenPieces, MaxPieces)
        \cup {DataCsvGz, DataCsv}

\* an argument is a str, a Path built from a str, or an enum member
ArgInputs ==
    [kind : {"str", "path"}, s : StrInputs, m : {"none"}]
        \cup [kind : {"member"}, s : { <<>> }, m : list]

\* str(arg): the string itself, or the Path's string
ArgStr(a) == IF a.kind = "path" THEN PathStr(ParsePath(a.s)) ELSE a.s

NoPath == [root |-> <<>>, parts |-> <<>>]
Idle == [op |-> "idle", scheme |-> "none", base |-> NoPath]

InitCodecVars ==
    /\ arg \in ArgInputs
    /\ cres = Idle

CodecQuiet ==
    /\ arg = [kind |-> "member", s |-> <<>>, m |-> "none"]
    /\ cres = Idle

DoFromPath ==
    /\ cres.op = "idle"
    /\ arg.kind \in {"str", "path"}
    /\ cres' = [op |-> "from_path", scheme |-> from_path(ArgStr(arg)),
                base |-> NoPath]
    /\ UNCHANGED arg

DoStripSuffix ==
    /\ cres.op = "idle"
    /\ arg.kind \in {"str", "path"}
    /\ \E b \in strip_suffix(ArgStr(arg)) :
          cres' = [op |-> "strip_suffix", scheme |-> "none", base |-> b]
    /\ UNCHANGED arg

DoSplit ==
    /\ cres.op = "idle"
    /\ arg.kind \in {"str", "path"}
    /\ \E r \in split(ArgStr(arg)) :
          cres' = [op |-> "split", scheme |-> r.compression, base |-> r.base]
    /\ UNCHANGED arg

\* CompressionFormat.of: a member is returned as it is
DoOf ==
    /\ cres.op = "idle"
    /\ arg.kind \in {"str", "member"}
    /\ \E r \in (IF arg.kind = "member" THEN {arg.m} ELSE of(arg.s)) :
          cres' = [op |-> "of", scheme |-> r, base |-> NoPath]
    /\ UNCHANGED arg

----------------------------------------------------------------------------
(***************************************************************************)
(* The file system: a directory from path strings to inodes and the blocks *)
(* each inode holds.  An open handle names its inode, so a file renamed    *)
(* while open keeps receiving the handle's writes, as on POSIX.            *)
(***************************************************************************)
Put(f, k, v) == [x \in (DOMAIN f) \cup {k} |-> IF x = k THEN v ELSE f[x]]
Del(f, k) == [x \in (DOMAIN f) \ {k} |-> f[x]]
EmptyMap == [x \in {} |-> 0]

FreshIno(d) == CHOOSE n \in 1..(Cardinality(DOMAIN d) + 1) : n \notin DOMAIN d

\* inodes with neither a name nor an open handle are reclaimed
Reclaim(dr, dt, w) ==
    LET live == {dr[p] : p \in DOMAIN dr} \cup {w[x].ino : x \in DOMAIN w}
    IN [i \in (DOMAIN dt) \cap live |-> dt[i]]

\* os.replace(src, dst)
os_replace(dr, src, dst) == Put(Del(dr, src), dst, dr[src])

(***************************************************************************)
(* What a codec stores: a header, one block per character, an end mark.    *)
(* The end mark is produced when the stream is closed.  No compression     *)
(* stores the characters alone.  Characters are small integers.            *)
(***************************************************************************)
Block(c, k, v) == [c |-> c, k |-> k, v |-> v]

Encode(c, text) ==
    IF c = "none" THEN [i \in 1..Len(text) |-> Block("none", "dat", text[i])]
    ELSE <<Block(c, "hdr", 0)>>
           \o [i \in 1..Len(text) |-> Block(c, "dat", text[i])]
           \o <<Block(c, "end", 0)>>

\* the blocks that cannot reach the disk before close
TrailerLen(c) == IF c = "none" THEN 0 ELSE 1

IsMember(c, blocks) ==
    /\ Len(blocks) >= 2
    /\ blocks[1] = Block(c, "hdr", 0)
    /\ Last(blocks) = Block(c, "end", 0)
    /\ \A i \in 2..(Len(blocks) - 1) : blocks[i].c = c /\ blocks[i].k = "dat"

MemberText(blocks) == [i \in 1..(Len(blocks) - 2) |-> blocks[i + 1].v]

\* the texts of the members a stream is made of; ok is FALSE when the stream
\* is not a sequence of whole members of codec c
RECURSIVE ParseMembers(_, _)
ParseMembers(c, blocks) ==
    IF blocks = <<>> THEN [ok |-> TRUE, texts |-> <<>>]
    ELSE LET ends == {i \in 1..Len(blocks) : blocks[i].k = "end"}
         IN IF ends = {} THEN [ok |-> FALSE, texts |-> <<>>]
            ELSE LET e == CHOOSE i \in ends : \A j \in ends : i <= j
                     m == SubSeq(blocks, 1, e)
                     rest == ParseMembers(c, SubSeq(blocks, e + 1, Len(blocks)))
                 IN IF IsMember(c, m) /\ rest.ok
                    THEN [ok |-> TRUE, texts |-> <<MemberText(m)>> \o rest.texts]
                    ELSE [ok |-> FALSE, texts |-> <<>>]

Ok(text) == [status |-> "ok", text |-> text]
Err(e) == [status |-> e, text |-> <<>>]

\* get_handle(path, "r", compression=c).read() on stored blocks, c not lz4.
\* gzip, bz2 and xz read every member of a stream; pandas refuses a zip
\* archive of several files; a zstd reader may stop after the first frame.
\* An empty compressed file reads as empty text or fails, by codec.
Decode(c, blocks) ==
    IF c = "none"
    THEN IF \A i \in 1..Len(blocks) : blocks[i].c = "none"
         THEN {Ok([i \in 1..Len(blocks) |-> blocks[i].v])}
         ELSE {Err("UnicodeDecodeError")}
    ELSE LET p == ParseMembers(c, blocks)
         IN IF ~p.ok THEN {Err("BadFile")}
            ELSE IF Len(p.texts) = 0 THEN {Ok(<<>>), Err("BadFile")}
            ELSE IF Len(p.texts) = 1 THEN {Ok(p.texts[1])}
            ELSE IF c = "zip" THEN {Err("ValueError")}
            ELSE IF c = "zstd" THEN {Ok(p.texts[1]), Ok(JoinWith(p.texts, <<>>))}
            ELSE {Ok(JoinWith(p.texts, <<>>))}

----------------------------------------------------------------------------
(***************************************************************************)
(* SmartIo.tmp_path.                                                       *)
(***************************************************************************)
\* datetime.isoformat accepts these timespec values and raises ValueError
\* ("Unknown timespec value") for any other
ValidTimespecs ==
    {"auto", "hours", "minutes", "seconds", "milliseconds", "microseconds"}

Digit == <<"0", "1", "2", "3", "4", "5", "6", "7", "8", "9">>

\* datetime.isoformat(timespec=...) of the clock reading t, as
\* <date>-<date>T<time>:<time>.<fraction>
isoformat(t, timespec) ==
    IF timespec \in ValidTimespecs
    THEN [ok |-> TRUE,
          s |-> <<"2", "-", "1", "T", "0", ":", "5", ".", Digit[(t % 10) + 1]>>]
    ELSE [ok |-> FALSE, s |-> <<>>]

\* str.replace(ch, "")
Remove(s, ch) == SelectSeq(s, LAMBDA x : x # ch)

\* tmp_path as it would be with a timespec that isoformat accepts
tmp_path_microseconds(path, t) ==
    LET iso == isoformat(t, "microseconds")
        now == Remove(Remove(iso.s, ":"), "-")
        p == ParsePath(path)
        suf == JoinWith(PathSuffixes(p), <<>>)
    IN [ok |-> iso.ok,
        path |-> PathStr(PathJoin(PathParent(p),
                    <<".", "_", "_", "t", "m", "p", ".">> \o now \o suf))]

\* SmartIo.tmp_path(path, extra="tmp") at clock reading t: ok is FALSE when
\* the call raises ValueError.  Line 359 asks isoformat for timespec="ns",
\* which is not among the values datetime accepts, so the call raises for
\* every path and every clock reading.
tmp_path(path, t) ==
    LET iso == isoformat(t, "ns")
        now == Remove(Remove(iso.s, ":"), "-")
        p == ParsePath(path)
        suf == JoinWith(PathSuffixes(p), <<>>)
    IN [ok |-> iso.ok,
        path |-> PathStr(PathJoin(PathParent(p),
                    <<".", "_", "_", "t", "m", "p", ".">> \o now \o suf))]

Tick(t) == IF t < MaxClock THEN t + 1 ELSE t

\* SmartIo.tmp_path applied to the argument at some clock reading: the path
\* returned and the scheme from_path infers from it, or the ValueError
DoTmpPath ==
    /\ cres.op = "idle"
    /\ arg.kind \in {"str", "path"}
    /\ \E t \in 0..MaxClock :
          LET tmp == tmp_path(ArgStr(arg), t)
          IN cres' = IF tmp.ok
                     THEN [op |-> "tmp_path", scheme |-> from_path(tmp.path),
                           base |-> ParsePath(tmp.path)]
                     ELSE [op |-> "tmp_path", scheme |-> "ValueError",
                           base |-> NoPath]
    /\ UNCHANGED arg

----------------------------------------------------------------------------
(***************************************************************************)
(* SmartIo.write and SmartIo.read.                                         *)
(***************************************************************************)
Writers == 1..NumWriters

\* the text writer w writes: n characters of its own
Text(w, n) == [i \in 1..n |-> 10 * w + i]
PrevText == <<1, 2>>

Modes == { <<"w">>, <<"a">> }
InStr(ch, s) == \E i \in 1..Len(s) : s[i] = ch

NoKw == [given |-> FALSE, token |-> <<>>]
KwChoices ==
    { NoKw,
      [given |-> TRUE, token |-> <<"l", "z", "4">>],
      [given |-> TRUE, token |-> <<"G", "Z", "I", "P">>] }

\* SmartIo.path_or_buff_compression for a str path
path_or_buff_compression(path, kw) ==
    IF kw.given THEN of(kw.token) ELSE {from_path(path)}

\* SmartIo.write up to its first get_handle call with the lz4 branch's
\* append check (lines 302-303) left out
WriteEntry_NoLz4AppendCheck(path, mode, atomic, compression, t) ==
    LET tmp == tmp_path(path, t)
        viaTmp == [raise |-> IF tmp.ok THEN "" ELSE "ValueError",
                   target |-> tmp.path, now |-> TRUE]
        unsupported == [raise |-> "UnsupportedOperationError",
                        target |-> <<>>, now |-> FALSE]
    IN IF compression = "lz4" THEN viaTmp
       ELSE IF atomic
            THEN IF InStr("a", mode) THEN unsupported ELSE viaTmp
            ELSE [raise |-> "", target |-> path, now |-> FALSE]

\* SmartIo.write up to its first get_handle call: the exception raised, if
\* any, the path the handle is to be opened on, and whether datetime.now()
\* was read
WriteEntry(path, mode, atomic, compression, t) ==
    LET tmp == tmp_path(path, t)
        viaTmp == [raise |-> IF tmp.ok THEN "" ELSE "ValueError",
                   target |-> tmp.path, now |-> TRUE]
        unsupported == [raise |-> "UnsupportedOperationError",
                        target |-> <<>>, now |-> FALSE]
    IN IF compression = "lz4"
       THEN IF InStr("a", mode) THEN unsupported ELSE viaTmp
       ELSE IF atomic
            THEN IF InStr("a", mode) THEN unsupported ELSE viaTmp
            ELSE [raise |-> "", target |-> path, now |-> FALSE]

WIdle ==
    [pc |-> "idle", content |-> <<>>, mode |-> <<"w">>, atomic |-> FALSE,
     kw |-> NoKw, compression |-> "none", target |-> <<>>, ino |-> 0,
     buf |-> <<>>, tmps |-> {}, result |-> "none"]

\* settled: the read began when exactly one write call had been made and
\* that call had ended
RIdle == [status |-> "none", text |-> <<>>, settled |-> FALSE]

\* the codec get_handle is given: the lz4 branch passes the caller's kwargs
\* on, the other branch sets compression=pandas_value
PandasCodec(v) ==
    IF v = "None" THEN "none" ELSE IF v = "gzip" THEN "gz" ELSE v

HandleCodec(w) ==
    IF w.compression = "lz4" THEN "none"
    ELSE PandasCodec(pandas_value(w.compression))

DestOf(c) == <<"m">> \o suffix(c)

InitIoVars ==
    /\ \E c \in list :
         \E present \in BOOLEAN, kw \in KwChoices :
            /\ hist = [dest |-> DestOf(c), present |-> present,
                       blocks |-> IF present THEN Encode(c, PrevText) ELSE <<>>,
                       kw |-> kw]
            /\ dir = IF present THEN Put(EmptyMap, DestOf(c), 1) ELSE EmptyMap
            /\ data = IF present THEN Put(EmptyMap, 1, Encode(c, PrevText))
                      ELSE EmptyMap
    /\ clock = 0
    /\ wr = [w \in Writers |-> WIdle]
    /\ rd = RIdle

IoQuiet ==
    /\ hist = [dest |-> <<>>, present |-> FALSE, blocks |-> <<>>, kw |-> NoKw]
    /\ dir = EmptyMap
    /\ data = EmptyMap
    /\ clock = 0
    /\ wr = [w \in Writers |-> WIdle]
    /\ rd = RIdle

\* write(path, content, mode=..., atomic=..., [compression=...]), lines 298-323
Call(w) ==
    /\ wr[w].pc = "idle"
    /\ \A v \in Writers : v < w => wr[v].pc # "idle"
    /\ \E n \in 1..MaxTextLen, mode \in Modes, atomic \in BOOLEAN :
         \E c \in path_or_buff_compression(hist.dest, hist.kw) :
            LET mine == [WIdle EXCEPT !.content = Text(w, n), !.mode = mode,
                                      !.atomic = atomic, !.kw = hist.kw]
            IN IF c = KeyError
               THEN /\ wr' = [wr EXCEPT ![w] =
                         [mine EXCEPT !.pc = "done", !.result = "KeyError"]]
                    /\ clock' = clock
               ELSE LET e == WriteEntry(hist.dest, mode, atomic, c, clock)
                    IN /\ wr' = [wr EXCEPT ![w] =
                            [mine EXCEPT !.compression = c,
                                         !.pc = IF e.raise = "" THEN "open" ELSE "done",
                                         !.target = IF e.raise = "" THEN e.target ELSE <<>>,
                                         !.result = IF e.raise = "" THEN "none" ELSE e.raise]]
                       /\ clock' = IF e.now THEN Tick(clock) ELSE clock
    /\ UNCHANGED <<dir, data, rd, hist>>

\* get_handle(target, mode, **kwargs) opens the file: "w" creates or
\* truncates, "a" creates or keeps.  In the lz4 branch a compression="lz4"
\* keyword reaches pandas, which rejects it before opening anything.
Open(w) ==
    /\ wr[w].pc = "open"
    /\ IF wr[w].compression = "lz4" /\ wr[w].kw.given
       THEN /\ wr' = [wr EXCEPT ![w].pc = "done", ![w].result = "ValueError"]
            /\ UNCHANGED <<dir, data>>
       ELSE LET tgt == wr[w].target
                exists == tgt \in DOMAIN dir
                ino == IF exists THEN dir[tgt] ELSE FreshIno(data)
            IN /\ dir' = Put(dir, tgt, ino)
               /\ data' = IF exists /\ InStr("a", wr[w].mode) THEN data
                          ELSE Put(data, ino, <<>>)
               /\ wr' = [wr EXCEPT ![w].pc = "write", ![w].ino = ino,
                                   ![w].tmps = IF tgt = hist.dest THEN {} ELSE {tgt}]
    /\ UNCHANGED <<clock, rd, hist>>

\* f.handle.write(content): the encoded stream is buffered and any prefix of
\* it short of the end mark may reach the disk; then, in the atomic branch,
\* os.replace(tmp, path), still inside the with block (lines 324-326)
Write(w) ==
    /\ wr[w].pc = "write"
    /\ LET pending == Encode(HandleCodec(wr[w]), wr[w].content)
           replaces == wr[w].atomic /\ wr[w].compression # "lz4"
       IN \E k \in 0..(Len(pending) - TrailerLen(HandleCodec(wr[w]))) :
            LET wr1 == [wr EXCEPT ![w].pc = "close",
                                  ![w].buf = SubSeq(pending, k + 1, Len(pending))]
                data1 == [data EXCEPT ![wr[w].ino] = @ \o SubSeq(pending, 1, k)]
                dir1 == IF replaces THEN os_replace(dir, wr[w].target, hist.dest)
                        ELSE dir
            IN /\ wr' = wr1
               /\ dir' = dir1
               /\ data' = Reclaim(dir1, data1, wr1)
    /\ UNCHANGED <<clock, rd, hist>>

\* leaving the with block closes the handle and flushes what is buffered.
\* The lz4 branch goes on (lines 309-316): lz4.frame.open(..., "wb") creates
\* or truncates its file, fp.write() without data raises TypeError, and the
\* os.replace after it is never reached.
Close(w) ==
    /\ wr[w].pc = "close"
    /\ LET data1 == [data EXCEPT ![wr[w].ino] = @ \o wr[w].buf]
           shut == [wr[w] EXCEPT !.pc = "done", !.ino = 0, !.buf = <<>>]
       IN IF wr[w].compression # "lz4"
          THEN /\ wr' = [wr EXCEPT ![w] = [shut EXCEPT !.result = "returned"]]
               /\ data' = Reclaim(dir, data1, wr')
               /\ UNCHANGED <<dir, clock>>
          ELSE LET tmp == tmp_path(hist.dest, clock)
               IN IF wr[w].atomic /\ ~tmp.ok
                  THEN /\ wr' = [wr EXCEPT ![w] = [shut EXCEPT !.result = "ValueError"]]
                       /\ data' = Reclaim(dir, data1, wr')
                       /\ clock' = Tick(clock)
                       /\ UNCHANGED dir
                  ELSE LET tgt == IF wr[w].atomic THEN tmp.path ELSE hist.dest
                           ino == IF tgt \in DOMAIN dir THEN dir[tgt]
                                  ELSE FreshIno(data1)
                       IN /\ \E body \in {<<>>, Encode("lz4", <<>>)} :
                               data' = Put(data1, ino, body)
                          /\ dir' = Put(dir, tgt, ino)
                          /\ wr' = [wr EXCEPT ![w] =
                                [shut EXCEPT !.result = "TypeError",
                                             !.tmps = IF wr[w].atomic
                                                      THEN @ \cup {tgt} ELSE @]]
                          /\ clock' = IF wr[w].atomic THEN Tick(clock) ELSE clock
    /\ UNCHANGED <<rd, hist>>

\* the call ends early: an I/O failure raised by the open, the write or the
\* close (outcome "OSError"), or the death of the process ("crashed").  What
\* had reached the disk stays, the handle is gone, and nothing in write
\* removes the file the handle was opened on.
Faults == Cardinality({w \in Writers : wr[w].result \in {"OSError", "crashed"}})

Abort(w, outcome) ==
    /\ wr[w].pc \in {"open", "write", "close"}
    /\ Faults < MaxFaults
    /\ LET pending == IF wr[w].pc = "write"
                      THEN Encode(HandleCodec(wr[w]), wr[w].content)
                      ELSE wr[w].buf
           most == IF wr[w].pc = "write"
                   THEN Len(pending) - TrailerLen(HandleCodec(wr[w]))
                   ELSE Len(pending)
           shut == [wr EXCEPT ![w].pc = "done", ![w].ino = 0, ![w].buf = <<>>,
                              ![w].result = outcome]
       IN /\ wr' = shut
          /\ IF wr[w].pc = "open" THEN data' = data
             ELSE \E k \in 0..most :
                     data' = Reclaim(dir,
                                [data EXCEPT ![wr[w].ino] = @ \o SubSeq(pending, 1, k)],
                                shut)
    /\ UNCHANGED <<dir, clock, rd, hist>>

Fail(w) == Abort(w, "OSError")

Crash(w) == Abort(w, "crashed")

\* SmartIo.read(path, [compression=...]) for the resolved scheme c.  In the
\* lz4 branch lz4.frame.open(path).read() yields bytes, which are then handed
\* to get_handle as if they were a path: pandas raises (ValueError for the
\* compression="lz4" keyword, TypeError for the bytes).
ReadOutcomes(path, kw, c) ==
    IF path \notin DOMAIN dir THEN {Err("FileNotFoundError")}
    ELSE IF c = "lz4"
         THEN IF ~ParseMembers("lz4", data[dir[path]]).ok THEN {Err("RuntimeError")}
              ELSE IF kw.given THEN {Err("ValueError")} ELSE {Err("TypeError")}
         ELSE Decode(c, data[dir[path]])

Read ==
    /\ \E c \in path_or_buff_compression(hist.dest, hist.kw) :
         LET started == {w \in Writers : wr[w].pc # "idle"}
             at == [RIdle EXCEPT !.settled =
                        /\ Cardinality(started) = 1
                        /\ \A w \in started : wr[w].pc = "done"]
         IN IF c = KeyError
            THEN rd' = [at EXCEPT !.status = "KeyError"]
            ELSE \E r \in ReadOutcomes(hist.dest, hist.kw, c) :
                   rd' = [at EXCEPT !.status = r.status, !.text = r.text]
    /\ UNCHANGED <<dir, data, clock, wr, hist>>

----------------------------------------------------------------------------
(***************************************************************************)
(* The checksum manifest: an ordered list of (filename, digest) entries,   *)
(* and the register / verify rules over it.                                *)
(***************************************************************************)
Filenames == {"a.txt", "b.txt"}
Digests == {"deadbeef", "cafef00d"}
Entries == [filename : Filenames, digest : Digests]

RECURSIVE SeqsUpTo(_, _)
SeqsUpTo(S, n) ==
    IF n = 0 THEN { <<>> }
    ELSE LET prev == SeqsUpTo(S, n - 1)
         IN prev \cup {Append(q, x) : q \in prev, x \in S}

NoError == [kind |-> "ok", key |-> "", original |-> "", new |-> "",
            actual |-> "", expected |-> ""]

\* the same error with the two digests stored in each other's attribute
HashContradictsExistingError_Swapped(key, original, new) ==
    [NoError EXCEPT !.kind = "HashContradictsExistingError", !.key = key,
                    !.original = new, !.new = original]

\* HashContradictsExistingError(key=, original=, new=), by HashExistsError.__init__
HashContradictsExistingError(key, original, new) ==
    [NoError EXCEPT !.kind = "HashContradictsExistingError", !.key = key,
                    !.original = original, !.new = new]

\* the ambiguity raised as its sibling, the missing-filename error
MultipleHashFilenamesError_AsMissing(key) ==
    [NoError EXCEPT !.kind = "HashFilenameMissingError", !.key = key]

\* MultipleHashFilenamesError(key=)
MultipleHashFilenamesError(key) ==
    [NoError EXCEPT !.kind = "MultipleHashFilenamesError", !.key = key]

\* HashFilenameMissingError(key=)
HashFilenameMissingError(key) ==
    [NoError EXCEPT !.kind = "HashFilenameMissingError", !.key = key]

\* HashDidNotValidateError(actual=, expected=)
HashDidNotValidateError(actual, expected) ==
    [NoError EXCEPT !.kind = "HashDidNotValidateError", !.actual = actual,
                    !.expected = expected]

\* findAll(manifest, filename)
findAll(m, f) == SelectSeq(m, LAMBDA e : e.filename = f)

\* findUnique(manifest, filename): the error, or ok with the entry's digest
\* in "expected"
findUnique(m, f) ==
    LET hits == findAll(m, f)
    IN IF Len(hits) = 0 THEN HashFilenameMissingError(f)
       ELSE IF Len(hits) > 1 THEN MultipleHashFilenamesError(f)
       ELSE [NoError EXCEPT !.expected = hits[1].digest]

\* register, step 3: the outcome and the manifest to persist
register(m, f, d) ==
    LET hits == findAll(m, f)
    IN IF Len(hits) = 0
       THEN [out |-> NoError, manifest |-> Append(m, [filename |-> f, digest |-> d])]
       ELSE IF Len(hits) > 1
       THEN [out |-> MultipleHashFilenamesError(f), manifest |-> m]
       ELSE IF hits[1].digest = d
       THEN [out |-> NoError, manifest |-> m]
       ELSE [out |-> HashContradictsExistingError(f, hits[1].digest, d),
             manifest |-> m]

\* verify: findUnique, then the comparison of the digests
verify(m, f, actual) ==
    LET u == findUnique(m, f)
    IN IF u.kind # "ok" THEN u
       ELSE IF u.expected # actual THEN HashDidNotValidateError(actual, u.expected)
       ELSE NoError

SIdle == [op |-> "idle", file |-> "", digest |-> "", before |-> <<>>, out |-> NoError]

InitSumVars ==
    /\ manifest \in SeqsUpTo(Entries, MaxEntries)
    /\ sres = SIdle

SumQuiet ==
    /\ manifest = <<>>
    /\ sres = SIdle

Register ==
    \E f \in Filenames, d \in Digests :
        LET r == register(manifest, f, d)
        IN /\ manifest' = r.manifest
           /\ sres' = [op |-> "register", file |-> f, digest |-> d,
                       before |-> manifest, out |-> r.out]

Verify ==
    \E f \in Filenames, d \in Digests :
        /\ sres' = [op |-> "verify", file |-> f, digest |-> d,
                    before |-> manifest, out |-> verify(manifest, f, d)]
        /\ UNCHANGED manifest

----------------------------------------------------------------------------
(***************************************************************************)
(* Specifications: the writers and the reader on one destination (Spec),   *)
(* the registry applied to one argument (SpecCodec), and the manifest      *)
(* under register and verify calls (SpecSums).                             *)
(***************************************************************************)
Init == InitIoVars /\ CodecQuiet /\ SumQuiet

Next ==
    \/ \E w \in Writers : Call(w) /\ UNCHANGED <<codecVars, sumVars>>
    \/ \E w \in Writers : Open(w) /\ UNCHANGED <<codecVars, sumVars>>
    \/ \E w \in Writers : Write(w) /\ UNCHANGED <<codecVars, sumVars>>
    \/ \E w \in Writers : Close(w) /\ UNCHANGED <<codecVars, sumVars>>
    \/ \E w \in Writers : Fail(w) /\ UNCHANGED <<codecVars, sumVars>>
    \/ \E w \in Writers : Crash(w) /\ UNCHANGED <<codecVars, sumVars>>
    \/ Read /\ UNCHANGED <<codecVars, sumVars>>

Spec == Init /\ [][Next]_vars

InitCodec == InitCodecVars /\ IoQuiet /\ SumQuiet

NextCodec ==
    \/ DoFromPath /\ UNCHANGED <<ioVars, sumVars>>
    \/ DoStripSuffix /\ UNCHANGED <<ioVars, sumVars>>
    \/ DoSplit /\ UNCHANGED <<ioVars, sumVars>>
    \/ DoOf /\ UNCHANGED <<ioVars, sumVars>>
    \/ DoTmpPath /\ UNCHANGED <<ioVars, sumVars>>

SpecCodec == InitCodec /\ [][NextCodec]_vars

InitSums == InitSumVars /\ IoQuiet /\ CodecQuiet

NextSums ==
    \/ Register /\ UNCHANGED <<ioVars, codecVars>>
    \/ Verify /\ UNCHANGED <<ioVars, codecVars>>

SpecSums == InitSums /\ [][NextSums]_vars

----------------------------------------------------------------------------
(***************************************************************************)
(* Properties of the writers and the reader (Spec).                        *)
(***************************************************************************)
Started == {w \in Writers : wr[w].pc # "idle"}

\* what is seen at the destination path
Visible ==
    IF hist.dest \in DOMAIN dir
    THEN [present |-> TRUE, blocks |-> data[dir[hist.dest]]]
    ELSE [present |-> FALSE, blocks |-> <<>>]

\* what the destination held before any call
Previous == [present |-> hist.present, blocks |-> hist.blocks]

\* the whole content of writer w, as its codec stores it
WholeContent(w) ==
    [present |-> TRUE, blocks |-> Encode(HandleCodec(wr[w]), wr[w].content)]

C4_RoundTrip ==
    \A w \in Writers :
        ( /\ rd.settled
          /\ Started = {w}
          /\ wr[w].pc = "done"
          /\ wr[w].mode = <<"w">>
          /\ wr[w].result \notin {"OSError", "crashed", "KeyError"} )
            => rd.status = "ok" /\ rd.text = wr[w].content

\* The same for the calls that are neither atomic nor lz4: this much of the
\* round trip holds.
RoundTripPlain ==
    \A w \in Writers :
        ( /\ rd.settled
          /\ Started = {w}
          /\ wr[w].pc = "done"
          /\ wr[w].mode = <<"w">>
          /\ ~wr[w].atomic
          /\ wr[w].compression # "lz4"
          /\ wr[w].result \notin {"OSError", "crashed", "KeyError"} )
            => rd.status = "ok" /\ rd.text = wr[w].content

\* C5: a write call in append mode whose scheme is lz4, inferred or given,
\* has ended with UnsupportedOperationError without opening or creating any
\* file; when it is the only call made, the destination and the directory
\* are as they were.
C5_Lz4AppendRefused ==
    \A w \in Started :
        (InStr("a", wr[w].mode) /\ wr[w].compression = "lz4")
            => /\ wr[w].pc = "done"
               /\ wr[w].result = "UnsupportedOperationError"
               /\ wr[w].ino = 0
               /\ wr[w].tmps = {}
               /\ (Started = {w}
                     => Visible = Previous /\ DOMAIN dir \subseteq {hist.dest})

\* C5 witness: an append call on an existing .lz4 destination was refused.
C5_Witness ==
    \E w \in Started :
        /\ InStr("a", wr[w].mode)
        /\ wr[w].compression = "lz4"
        /\ wr[w].result = "UnsupportedOperationError"
        /\ hist.present
        /\ Visible = Previous

\* C12: a read made before any write call, with the scheme inferred from the
\* suffix, fails with ReadPermissionsError when the source is missing and
\* returns the whole text the source holds when it is there, for every
\* scheme.
C12_ReadRefusesUnreadable ==
    (rd.status # "none" /\ Started = {} /\ ~hist.kw.given)
        => IF hist.present
           THEN rd.status = "ok" /\ rd.text = PrevText
           ELSE rd.status = "ReadPermissionsError"

\* This much of it holds: a source that is there and is not lz4 is read
\* whole.
ReadPlainReadable ==
    ( /\ rd.status # "none"
      /\ Started = {}
      /\ ~hist.kw.given
      /\ hist.present
      /\ hist.dest # DestOf("lz4") )
        => rd.status = "ok" /\ rd.text = PrevText

----------------------------------------------------------------------------
(***************************************************************************)
(* Properties of the registry (SpecCodec).                                 *)
(***************************************************************************)
\* the scheme the filename's suffix names: the whole name when it is a dot
\* followed by dot-free text, else the final extension
SchemeBySuffix(s) ==
    LET p == ParsePath(s)
        name == PathName(p)
        ext == IF Len(name) >= 1 /\ name[1] = "." /\ Count(name, ".") = 1
               THEN name
               ELSE PathSuffix(p)
        hits == {c \in list_non_empty : suffix(c) = ext}
    IN IF hits = {} THEN "none" ELSE CHOOSE c \in hits : TRUE

\* C8: from_path returns a scheme for every path, never an error: the one
\* whose suffix is the filename's final extension (or the whole filename
\* ".<suffix>"), none when there is no such scheme; data.csv.gz gives gz,
\* data.csv gives none, and strip_suffix of data.csv.gz gives data.csv.
C8_FromPathBySuffix ==
    /\ cres.op = "from_path"
          => /\ cres.scheme \in list
             /\ cres.scheme = SchemeBySuffix(ArgStr(arg))
             /\ (arg.s = DataCsvGz => cres.scheme = "gz")
             /\ (arg.s = DataCsv => cres.scheme = "none")
    /\ (cres.op = "strip_suffix" /\ arg.s = DataCsvGz)
          => cres.base = ParsePath(DataCsv)

\* C8 witness: from_path has been applied to the one-dot name ".gz" and
\* returned gz.
C8_Witness ==
    /\ cres.op = "from_path"
    /\ arg.s = <<".", "g", "z">>
    /\ cres.scheme = "gz"

\* the token without hyphens and spaces, in lower case
LooseName(t) == Remove(Remove(Lower(t), "-"), " ")

\* C9: of resolves a name by a match that ignores case, hyphens and spaces
\* against the short and the full names, and fails for every other token.
C9_OfMatchesLoosely ==
    (cres.op = "of" /\ arg.kind = "str")
        => LET hits == {c \in list : LooseName(arg.s) \in {MemberName[c], full_name(c)}}
           IN IF hits = {} THEN cres.scheme = KeyError ELSE cres.scheme \in hits

\* C10: split returns the pair (strip_suffix(path), from_path(path)).
C10_SplitIsStripAndFromPath ==
    cres.op = "split"
        => /\ cres.base \in strip_suffix(ArgStr(arg))
           /\ cres.scheme = from_path(ArgStr(arg))

\* For Path arguments, whose string has no trailing separator, split does
\* agree with strip_suffix and from_path.
SplitAgreesOnPaths ==
    (cres.op = "split" /\ arg.kind = "path")
        => /\ cres.base \in strip_suffix(ArgStr(arg))
           /\ cres.scheme = from_path(ArgStr(arg))

\* C11: for every destination path with a filename, tmp_path returns a
\* hidden name in the destination's directory that ends with the
\* destination's suffix chain, and from_path infers from it the scheme it
\* infers from the destination.
C11_TmpPathKeepsScheme ==
    (cres.op = "tmp_path" /\ PathName(ParsePath(ArgStr(arg))) # <<>>)
        => LET dest == ParsePath(ArgStr(arg))
               name == PathName(cres.base)
           IN /\ cres.scheme = from_path(ArgStr(arg))
              /\ PathParent(cres.base) = PathParent(dest)
              /\ StartsWith(name, <<".">>)
              /\ EndsWith(name, JoinWith(PathSuffixes(dest), <<>>))

----------------------------------------------------------------------------
(***************************************************************************)
(* Properties of the manifest (SpecSums).                                  *)
(***************************************************************************)
IsPrefix(a, b) == Len(a) <= Len(b) /\ SubSeq(b, 1, Len(a)) = a

\* C6: register of a filename that has exactly one entry, with a digest that
\* differs from the recorded one, fails with HashContradictsExistingError
\* carrying the recorded and the new digest, and leaves the manifest as it
\* was; and no register call changes or drops an entry already recorded.
C6_ContradictionRefused ==
    sres.op = "register"
        => /\ IsPrefix(sres.before, manifest)
           /\ LET hits == findAll(sres.before, sres.file)
              IN (Len(hits) = 1 /\ hits[1].digest # sres.digest)
                    => /\ sres.out.kind = "HashContradictsExistingError"
                       /\ sres.out.key = sres.file
                       /\ sres.out.original = hits[1].digest
                       /\ sres.out.new = sres.digest
                       /\ manifest = sres.before

\* C6 witness: the manifest holds ("a.txt", "deadbeef") and register of a.txt
\* with digest cafef00d has been refused.
C6_Witness ==
    /\ sres.op = "register"
    /\ sres.before = << [filename |-> "a.txt", digest |-> "deadbeef"] >>
    /\ sres.file = "a.txt"
    /\ sres.digest = "cafef00d"
    /\ sres.out.kind = "HashContradictsExistingError"

\* C7: when the manifest holds more than one entry for a filename, equal
\* digests or not, verify and register of it both fail with
\* MultipleHashFilenamesError, and the manifest is left as it was.
C7_AmbiguityRefused ==
    (sres.op \in {"register", "verify"} /\ Len(findAll(sres.before, sres.file)) > 1)
        => /\ sres.out.kind = "MultipleHashFilenamesError"
           /\ sres.out.key = sres.file
           /\ manifest = sres.before

\* C7 witness: verify has been refused on a manifest with two entries of
\* equal digest for the filename.
C7_Witness ==
    /\ sres.op = "verify"
    /\ sres.before = << [filename |-> "a.txt", digest |-> "deadbeef"],
                        [filename |-> "a.txt", digest |-> "deadbeef"] >>
    /\ sres.file = "a.txt"
    /\ sres.out.kind = "MultipleHashFilenamesError"

=============================================================================
